---------------------------- MODULE Spec2Model ----------------------------
(***************************************************************************)
(* Model of trim_sign_language_data.py: the frame range calculator         *)
(* (get_frame_range), the folder processor (process_sign_folder) and the   *)
(* dataset orchestrator (process_dataset), over a small filesystem.        *)
(*                                                                         *)
(* Strings the program takes apart (folder names, file names, glob         *)
(* patterns) are sequences of one-character strings, so that split, join,  *)
(* startswith, the substring test and the zero padding are computed as the *)
(* code computes them.  A path is a sequence of such names.                *)
(*                                                                         *)
(* Times are integer-valued floats.  fps = total_frames / duration and     *)
(* time * fps are IEEE-754 double operations: IntTimesFps computes the     *)
(* exact quotient truncated toward zero (TruncDiv) and takes one off where *)
(* the two roundings leave the product under a whole number.  The         *)
(* computation holds for |time|, total_frames, |duration| < 2^10.          *)
(***************************************************************************)
EXTENDS Integers, Sequences, FiniteSets, TLC

VARIABLES
    fs,                  \* the filesystem: directories, files, free space
    fs0,                 \* the filesystem when the run started
    dry_run,             \* the dry_run argument
    use_multiprocessing, \* the use_multiprocessing argument
    call,                \* arguments of the call under study
    ret,                 \* what the call returned (or raised)
    all_tasks,           \* process_dataset: the discovered job list
    results,             \* process_dataset: task index -> outcome
    workers,             \* the pool: worker -> what it is doing
    pc,                  \* position of the main process
    summary,             \* success/skip/error counts and frame sums
    error_list           \* the accumulated error lines

vars == <<fs, fs0, dry_run, use_multiprocessing, call, ret, all_tasks,
          results, workers, pc, summary, error_list>>

---------------------------------------------------------------------------
(* Bounds of the model *)

MaxTime == 3          \* get_frame_range: times are -1..MaxTime
MaxTotalFrames == 24  \* get_frame_range: total_frames is 0..MaxTotalFrames
MaxOffset == 11       \* get_frame_range: offset is 0..MaxOffset
MaxLongTime == 11     \* get_frame_range, long recordings: times are -1..MaxLongTime
MaxLongFrames == 15   \* get_frame_range, long recordings: total_frames is 0..MaxLongFrames
MaxFolderTime == 1    \* one folder: its metadata's times are -1..MaxFolderTime
MaxFrames == 12       \* one folder: it holds 0, 1 or MaxFrames frames
MaxFree == 1          \* one folder: the disk holds 0..MaxFree more files, or plenty
DiskPlenty == 40      \* free space no run of the model uses up
MaxFolders == 2       \* the dataset: sign folders in numbered folder 01
MaxDatasetFree == 2   \* the dataset: the disk holds 0..MaxDatasetFree more files
MaxWorkers == 2       \* the pool: its workers are 1..MaxWorkers

(* Program constants *)

DefaultOffset == 10
PadWidth == 12

---------------------------------------------------------------------------
(* Python primitives *)

Max(a, b) == IF a >= b THEN a ELSE b
Min(a, b) == IF a <= b THEN a ELSE b
Abs(a) == IF a >= 0 THEN a ELSE -a

\* int(p / q) for q # 0: the quotient truncated toward zero
TruncDiv(p, q) ==
    LET m == Abs(p) \div Abs(q)
    IN  IF (p >= 0) = (q > 0) THEN m ELSE -m

---------------------------------------------------------------------------
(* get_frame_range *)

\* a raised exception, as a value
Raise(e) == [raised |-> e]
Raised(r) == "raised" \in DOMAIN r

\* Python floats are IEEE-754 doubles: a significand of 53 bits, every
\* operation rounded to the nearest double, ties to the even significand
SignificandBits == 53

RECURSIVE BitLength(_)
BitLength(n) == IF n = 0 THEN 0 ELSE 1 + BitLength(n \div 2)
RECURSIVE Pow2(_)
Pow2(n) == IF n = 0 THEN 1 ELSE 2 * Pow2(n - 1)

\* the binary exponent j of p / q, p > 0 and q > 0: 2^j <= p / q < 2^(j + 1)
RECURSIVE ExponentUp(_, _, _)
ExponentUp(p, q, j) == IF p >= q * Pow2(j + 1) THEN ExponentUp(p, q, j + 1) ELSE j
RECURSIVE ExponentDown(_, _, _)
ExponentDown(p, q, z) == IF p * Pow2(z) < q THEN ExponentDown(p, q, z + 1) ELSE z
Exponent(p, q) == IF p >= q THEN ExponentUp(p, q, 0) ELSE -ExponentDown(p, q, 0)

\* the remainder of r * 2^n by q: long division, one bit of the quotient a step
RECURSIVE DoubleMod(_, _, _)
DoubleMod(r, q, n) == IF n = 0 THEN r ELSE DoubleMod((2 * r) % q, q, n - 1)

\* fps = total_frames / duration for total_frames > 0 and duration > 0: the
\* double has SignificandBits - 1 - Exponent fraction bits, and it is the
\* quotient less QuotientError / (duration * 2^(fraction bits)); the error
\* is positive where the quotient was rounded down, negative where up
QuotientError(total_frames, duration) ==
    LET fraction_bits == SignificandBits - 1 - Exponent(total_frames, duration)
        before_last == DoubleMod(total_frames % duration, duration, fraction_bits - 1)
        last_bit == IF 2 * before_last >= duration THEN 1 ELSE 0
        r == (2 * before_last) % duration
    IN  IF 2 * r < duration \/ (2 * r = duration /\ last_bit = 0)
        THEN r
        ELSE r - duration

\* time * fps for time > 0: the product can only round to a double below the
\* whole number time * total_frames / duration when that is a whole number n,
\* fps was rounded down, and the product is more than half a unit in the
\* last place under n; the doubles under n have exponent BitLength(n - 1) - 1
ProductBelowWhole(time, total_frames, duration) ==
    /\ time * total_frames # 0
    /\ (time * total_frames) % duration = 0
    /\ total_frames % duration # 0
    /\ LET e == QuotientError(total_frames, duration)
           n == (time * total_frames) \div duration
           a == Exponent(total_frames, duration) + 1
           b == BitLength(n - 1) - 1
           m == Min(a, b)
       IN  e > 0 /\ time * e * Pow2(a - m) > duration * Pow2(b - m)

\* int(t * fps) with fps = total_frames / duration, duration # 0: the
\* product of the doubles, truncated toward zero
IntTimesFps(t, total_frames, duration) ==
    LET exact == TruncDiv(t * total_frames, duration)
    IN  IF ProductBelowWhole(Abs(t), total_frames, Abs(duration))
        THEN (IF exact > 0 THEN exact - 1 ELSE exact + 1)
        ELSE exact

StartFrame_NoClamp(start_time, total_frames, duration, offset) ==
    IntTimesFps(start_time, total_frames, duration) - offset

StartFrame(start_time, total_frames, duration, offset) ==
    Max(0, IntTimesFps(start_time, total_frames, duration) - offset)

EndFrame_OffsetSubtracted(end_time, total_frames, duration, offset) ==
    Min(total_frames - 1, IntTimesFps(end_time, total_frames, duration) - offset)

EndFrame(end_time, total_frames, duration, offset) ==
    Min(total_frames - 1, IntTimesFps(end_time, total_frames, duration) + offset)

get_frame_range(start_time, end_time, duration, total_frames, offset) ==
    IF duration = 0
    THEN Raise("ZeroDivisionError")
    ELSE [start_frame |-> StartFrame(start_time, total_frames, duration, offset),
          end_frame   |-> EndFrame(end_time, total_frames, duration, offset)]

---------------------------------------------------------------------------
(* Python strings, as sequences of one-character strings *)

\* s.startswith(p)
StartsWith(s, p) == Len(p) <= Len(s) /\ SubSeq(s, 1, Len(p)) = p

\* p in s
Contains(s, p) ==
    \E k \in 0..(Len(s) - Len(p)) : SubSeq(s, k + 1, k + Len(p)) = p

\* s.split(sep) for a one-character sep
RECURSIVE SplitFrom(_, _, _, _)
SplitFrom(s, sep, from, i) ==
    IF i > Len(s) THEN <<SubSeq(s, from, Len(s))>>
    ELSE IF s[i] = sep
         THEN <<SubSeq(s, from, i - 1)>> \o SplitFrom(s, sep, i + 1, i + 1)
    ELSE SplitFrom(s, sep, from, i + 1)

Split(s, sep) == SplitFrom(s, sep, 1, 1)

\* sep.join(parts)
RECURSIVE Join(_, _)
Join(parts, sep) ==
    IF parts = <<>> THEN <<>>
    ELSE IF Len(parts) = 1 THEN parts[1]
    ELSE parts[1] \o <<sep>> \o Join(Tail(parts), sep)

DigitChars == <<"0", "1", "2", "3", "4", "5", "6", "7", "8", "9">>

\* str(i) for i >= 0
RECURSIVE Decimal(_)
Decimal(i) ==
    IF i < 10 THEN <<DigitChars[i + 1]>>
    ELSE Append(Decimal(i \div 10), DigitChars[(i % 10) + 1])

\* f"{i:0Wd}" for i >= 0: at least W digits, zeros on the left
RECURSIVE LeftFill(_, _)
LeftFill(d, width) == IF Len(d) >= width THEN d ELSE LeftFill(<<"0">> \o d, width)

ZeroPad(i, width) == LeftFill(Decimal(i), width)

\* the characters of the model's names, in code point order
CodePointOrder ==
    <<".", "0", "1", "2", "3", "4", "5", "6", "7", "8", "9",
      "A", "B", "C", "D", "E", "F", "G", "H", "I", "J", "K", "L", "M",
      "N", "O", "P", "Q", "R", "S", "T", "U", "V", "W", "X", "Y", "Z", "_",
      "a", "b", "c", "d", "e", "f", "g", "h", "i", "j", "k", "l", "m",
      "n", "o", "p", "q", "r", "s", "t", "u", "v", "w", "x", "y", "z">>

Ord == [c \in {CodePointOrder[i] : i \in DOMAIN CodePointOrder} |->
           CHOOSE i \in DOMAIN CodePointOrder : CodePointOrder[i] = c]

\* a < b for Python strings
RECURSIVE StrLessFrom(_, _, _)
StrLessFrom(a, b, i) ==
    IF i > Len(b) THEN FALSE
    ELSE IF i > Len(a) THEN TRUE
    ELSE IF a[i] = b[i] THEN StrLessFrom(a, b, i + 1)
    ELSE Ord[a[i]] < Ord[b[i]]

StrLess(a, b) == StrLessFrom(a, b, 1)

\* paths of one directory compare as their last components do
PathLess(p, q) == StrLess(p[Len(p)], q[Len(q)])

RECURSIVE Insert(_, _)
Insert(sorted, p) ==
    IF sorted = <<>> THEN <<p>>
    ELSE IF PathLess(p, Head(sorted)) THEN <<p>> \o sorted
    ELSE <<Head(sorted)>> \o Insert(Tail(sorted), p)

\* sorted(paths)
RECURSIVE Sorted(_)
Sorted(paths) ==
    IF paths = <<>> THEN <<>>
    ELSE Insert(Sorted(SubSeq(paths, 1, Len(paths) - 1)), paths[Len(paths)])

\* fnmatch.fnmatch(name, pat) for patterns whose only wildcard is "*"
RECURSIVE FnmatchFrom(_, _, _, _)
FnmatchFrom(name, pat, i, j) ==
    IF j > Len(pat) THEN i > Len(name)
    ELSE IF pat[j] = "*"
         THEN \E k \in i..(Len(name) + 1) : FnmatchFrom(name, pat, k, j + 1)
    ELSE i <= Len(name) /\ name[i] = pat[j] /\ FnmatchFrom(name, pat, i + 1, j + 1)

Fnmatch(name, pat) == FnmatchFrom(name, pat, 1, 1)

---------------------------------------------------------------------------
(* The filesystem                                                          *)
(*   fs.dirs  : path -> the names in the directory, in listing order       *)
(*   fs.files : path -> the file's content                                 *)
(*   fs.free  : how many more files the disk can hold                      *)

\* os.path.join(p, name), os.path.basename(p), os.path.dirname(p)
PathJoin(p, name) == Append(p, name)
Basename(p) == p[Len(p)]
Dirname(p) == SubSeq(p, 1, Len(p) - 1)

Exists(f, p) == p \in DOMAIN f.dirs \/ p \in DOMAIN f.files
IsDir(f, p) == p \in DOMAIN f.dirs

AddEntry(dirs, p) ==
    IF Dirname(p) \in DOMAIN dirs
    THEN [dirs EXCEPT ![Dirname(p)] = Append(@, Basename(p))]
    ELSE dirs

\* glob.glob(os.path.join(dir, pat)): the matches in listing order; a
\* leading "*" does not match a hidden file
Glob(f, dir, pat) ==
    IF ~IsDir(f, dir) THEN <<>>
    ELSE LET hit(n) == Fnmatch(n, pat) /\ ~(Head(pat) = "*" /\ StartsWith(n, <<".">>))
             names == SelectSeq(f.dirs[dir], hit)
         IN  [k \in 1..Len(names) |-> PathJoin(dir, names[k])]

\* os.makedirs(p, exist_ok=True)
RECURSIVE Makedirs(_, _)
Makedirs(f, p) ==
    IF IsDir(f, p) \/ p = <<>> THEN f
    ELSE LET g == Makedirs(f, Dirname(p))
         IN  [g EXCEPT !.dirs = AddEntry(g.dirs, p) @@ (p :> <<>>)]

\* shutil.copy2(src, dst): a new file needs free space
Copy2(f, src, dst) ==
    IF dst \in DOMAIN f.files
    THEN [fs |-> [f EXCEPT !.files[dst] = f.files[src]], raised |-> FALSE]
    ELSE IF f.free = 0
    THEN [fs |-> f, raised |-> TRUE]
    ELSE [fs |-> [dirs  |-> AddEntry(f.dirs, dst),
                  files |-> f.files @@ (dst :> f.files[src]),
                  free  |-> f.free - 1],
          raised |-> FALSE]

---------------------------------------------------------------------------
(* load_morpheme_data: a metadata file holds [json |-> TRUE, start, end,   *)
(* duration], or [json |-> FALSE] when it does not parse.                  *)

load_morpheme_data(f, morpheme_path) ==
    LET data == f.files[morpheme_path]
    IN  IF ~data.json THEN Raise("JSONDecodeError")
        ELSE [start_time |-> data.start, end_time |-> data.end,
              duration |-> data.duration]

---------------------------------------------------------------------------
(* process_sign_folder *)

c_WORD == <<"W", "O", "R", "D">>
c_UF == <<"_", "F">>
c_NIA_SL == <<"N", "I", "A", "_", "S", "L", "_">>
c_REAL_STAR == <<"_", "R", "E", "A", "L", "*", "_">>
c_morpheme_json == <<"_", "m", "o", "r", "p", "h", "e", "m", "e", ".", "j", "s", "o", "n">>
c_keypoints_json == <<"_", "k", "e", "y", "p", "o", "i", "n", "t", "s", ".", "j", "s", "o", "n">>
ViewCodes == {<<"F">>, <<"D">>, <<"L">>, <<"R">>, <<"U">>}

\* str(path)
PathStr(p) == Join(p, "/")

\* seq[idx] for a Python index (0-based; a negative one counts from the end)
PyIndexOk(seq, idx) == -Len(seq) <= idx /\ idx < Len(seq)
PyIndex(seq, idx) == IF idx >= 0 THEN seq[idx + 1] ELSE seq[Len(seq) + idx + 1]

\* what a variable assigned in a loop holds after it: the last of the
\* values assigned, or the empty string (for None) when there was none
LastAssigned(values) == IF values = <<>> THEN <<>> ELSE values[Len(values)]

IsWordPart(part) == StartsWith(part, c_WORD)
IsViewPart(part) == part \in ViewCodes

\* the view filter: '_F' not in folder_name
NotFrontView_NoUnderscore(folder_name) == ~Contains(folder_name, <<"F">>)

NotFrontView(folder_name) == ~Contains(folder_name, c_UF)

\* the loop over the parts of the folder name: word_num and view_dir
WordNum(folder_name) == LastAssigned(SelectSeq(Split(folder_name, "_"), IsWordPart))
ViewDir(folder_name) == LastAssigned(SelectSeq(Split(folder_name, "_"), IsViewPart))

MorphemePattern(word_num, view_dir) ==
    c_NIA_SL \o word_num \o c_REAL_STAR \o view_dir \o c_morpheme_json

\* the new name of a kept frame: its index token replaced by i, 12 digits
NewName(base_name, i) ==
    LET parts == Split(base_name, "_")
    IN  Join([parts EXCEPT ![Len(parts) - 1] = ZeroPad(i, PadWidth)], "_")

\* os.makedirs(output_folder, exist_ok=True) unless dry_run
MakeOutput_Always(f, output_folder, dry) == Makedirs(f, output_folder)

MakeOutput(f, output_folder, dry) ==
    IF dry THEN f ELSE Makedirs(f, output_folder)

\* Everything before the copy loop.  Either the call is over
\* ([done |-> TRUE, result, fs]), or the loop is to run, with the local
\* variables plan ([done |-> FALSE, plan, fs]).
Prepare(keypoint_folder, morpheme_folder, output_base, dry, f) ==
    LET folder_name == Basename(keypoint_folder)
        word_num == WordNum(folder_name)
        view_dir == ViewDir(folder_name)
        morpheme_pattern == PathJoin(morpheme_folder, MorphemePattern(word_num, view_dir))
        morpheme_files == Glob(f, morpheme_folder, MorphemePattern(word_num, view_dir))
        morpheme_file == morpheme_files[1]
        keypoint_files == Sorted(Glob(f, keypoint_folder, <<"*">> \o c_keypoints_json))
        total_frames == Len(keypoint_files)
        timing == load_morpheme_data(f, morpheme_file)
        range == get_frame_range(timing.start_time, timing.end_time,
                                 timing.duration, total_frames, DefaultOffset)
        output_folder == PathJoin(output_base, folder_name)
        over(r) == [done |-> TRUE, result |-> r, fs |-> f]
    IN  IF NotFrontView(folder_name)
        THEN over([skipped |-> TRUE, reason |-> "Not F view"])
        ELSE IF word_num = <<>> \/ view_dir = <<>>
        THEN over([error |-> <<"Cannot parse folder name: ">> \o folder_name])
        ELSE IF morpheme_files = <<>>
        THEN over([error |-> <<"Morpheme file not found with pattern: ">>
                               \o PathStr(morpheme_pattern)])
        ELSE IF total_frames = 0
        THEN over([error |-> <<"No keypoint files found">>])
        ELSE IF Raised(timing)
        THEN over([error |-> <<"Error loading morpheme data: ", timing.raised>>])
        ELSE IF Raised(range)
        THEN over(range)
        ELSE [done |-> FALSE,
              plan |-> [folder_name |-> folder_name,
                        view_dir |-> view_dir,
                        morpheme_file |-> morpheme_file,
                        keypoint_files |-> keypoint_files,
                        total_frames |-> total_frames,
                        start_time |-> timing.start_time,
                        end_time |-> timing.end_time,
                        start_frame |-> range.start_frame,
                        end_frame |-> range.end_frame,
                        output_folder |-> output_folder],
              fs |-> MakeOutput(f, output_folder, dry)]

\* how many times the copy loop runs: len(range(start_frame, end_frame + 1))
LoopCount(plan) == Max(0, plan.end_frame - plan.start_frame + 1)

\* one iteration of the copy loop, for position i of the kept range
CopyFrame(plan, i, dry, f) ==
    LET frame_idx == plan.start_frame + i
        src_file == PyIndex(plan.keypoint_files, frame_idx)
        dst_file == PathJoin(plan.output_folder, NewName(Basename(src_file), i))
    IN  IF ~PyIndexOk(plan.keypoint_files, frame_idx)
        THEN [fs |-> f, raised |-> "IndexError"]
        ELSE IF dry THEN [fs |-> f, raised |-> "no"]
        ELSE IF Copy2(f, src_file, dst_file).raised
        THEN [fs |-> f, raised |-> "OSError"]
        ELSE [fs |-> Copy2(f, src_file, dst_file).fs, raised |-> "no"]

\* the returned statistics
KeptFrames(plan) == plan.end_frame - plan.start_frame + 1

SuccessResult(plan) ==
    [success |-> TRUE,
     folder |-> plan.folder_name,
     total_frames |-> plan.total_frames,
     start_frame |-> plan.start_frame,
     end_frame |-> plan.end_frame,
     kept_frames |-> KeptFrames(plan),
     trimmed_frames |-> plan.total_frames - KeptFrames(plan),
     start_time |-> plan.start_time,
     end_time |-> plan.end_time]

\* the copy loop from position i on, and the return
RECURSIVE CopyLoop(_, _, _, _)
CopyLoop(plan, i, dry, f) ==
    IF i >= LoopCount(plan)
    THEN [result |-> SuccessResult(plan), fs |-> f]
    ELSE LET step == CopyFrame(plan, i, dry, f)
         IN  IF step.raised # "no"
             THEN [result |-> Raise(step.raised), fs |-> step.fs]
             ELSE CopyLoop(plan, i + 1, dry, step.fs)

\* process_sign_folder(keypoint_folder, morpheme_folder, output_base, dry_run)
\* on filesystem f: what it returns (or raises) and the filesystem it leaves
process_sign_folder(keypoint_folder, morpheme_folder, output_base, dry, f) ==
    LET p == Prepare(keypoint_folder, morpheme_folder, output_base, dry, f)
    IN  IF p.done
        THEN [result |-> p.result, fs |-> p.fs]
        ELSE CopyLoop(p.plan, 0, dry, p.fs)

---------------------------------------------------------------------------
(* Building a filesystem *)

EmptyFs(free) == [dirs |-> [p \in {} |-> <<>>], files |-> [p \in {} |-> 0], free |-> free]

WithDir(f, p) == Makedirs(f, p)

WithFile(f, p, content) ==
    LET g == Makedirs(f, Dirname(p))
    IN  [g EXCEPT !.dirs = AddEntry(g.dirs, p), !.files = g.files @@ (p :> content)]

\* items: a sequence of <<path, content>>, created in this order
RECURSIVE WithFiles(_, _)
WithFiles(f, items) ==
    IF items = <<>> THEN f
    ELSE WithFiles(WithFile(f, items[1][1], items[1][2]), Tail(items))

\* The layout: <data_root>/Training/Labeled/REAL/WORD is KeypointBase, its
\* morpheme subdirectory MorphemeBase; numbered folders lie under both.
c_01 == <<"0", "1">>
c_02 == <<"0", "2">>
c_morpheme == <<"m", "o", "r", "p", "h", "e", "m", "e">>
KeypointBase == << <<"W", "O", "R", "D">> >>
MorphemeBase == PathJoin(KeypointBase, c_morpheme)
OutputRoot == << <<"o", "u", "t">> >>

\* the frame files of a sign folder: <folder>_<index, 12 digits>_keypoints.json,
\* frame k holding [frame |-> k]; the directory lists them last frame first
FrameName(folder_name, k) ==
    folder_name \o <<"_">> \o ZeroPad(k, PadWidth) \o c_keypoints_json

FrameItems(keypoint_folder, n) ==
    [j \in 1..n |-> <<PathJoin(keypoint_folder, FrameName(Basename(keypoint_folder), n - j)),
                      [frame |-> n - j]>>]

c_notes == <<"n", "o", "t", "e", "s", ".", "t", "x", "t">>

\* a sign folder with n frames and a file that is no frame
WithSignFolder(f, keypoint_folder, n) ==
    WithFile(WithFiles(WithDir(f, keypoint_folder), FrameItems(keypoint_folder, n)),
             PathJoin(keypoint_folder, c_notes), [frame |-> -1])

---------------------------------------------------------------------------
(* Values of the variables a specification does not use *)

NoCall == [op |-> "none"]
NoRet == [none |-> TRUE]
NoSummary == [none |-> TRUE]

---------------------------------------------------------------------------
(* SpecRange: get_frame_range on its own *)

RangeCalls ==
    [op : {"get_frame_range"},
     start_time : -1..MaxTime, end_time : -1..MaxTime, duration : 0..MaxTime,
     total_frames : 0..MaxTotalFrames, offset : 0..MaxOffset]

InitRange ==
    /\ call \in RangeCalls
    /\ ret = NoRet
    /\ pc = "call"
    /\ fs = EmptyFs(0) /\ fs0 = EmptyFs(0)
    /\ dry_run = FALSE /\ use_multiprocessing = FALSE
    /\ all_tasks = <<>> /\ results = <<>> /\ workers = <<>>
    /\ summary = NoSummary /\ error_list = <<>>

CallGetFrameRange ==
    /\ pc = "call" /\ call.op = "get_frame_range"
    /\ ret' = get_frame_range(call.start_time, call.end_time, call.duration,
                              call.total_frames, call.offset)
    /\ pc' = "returned"
    /\ UNCHANGED <<fs, fs0, dry_run, use_multiprocessing, call, all_tasks,
                   results, workers, summary, error_list>>

NextRange == CallGetFrameRange

SpecRange == InitRange /\ [][NextRange]_vars

---------------------------------------------------------------------------
(* SpecRangeLong: get_frame_range on recordings of many seconds, where the
   rounding of fps shows *)

LongRangeCalls ==
    [op : {"get_frame_range"},
     start_time : -1..MaxLongTime, end_time : -1..MaxLongTime,
     duration : 0..MaxLongTime,
     total_frames : 0..MaxLongFrames, offset : {0, DefaultOffset}]

InitRangeLong ==
    /\ call \in LongRangeCalls
    /\ ret = NoRet
    /\ pc = "call"
    /\ fs = EmptyFs(0) /\ fs0 = EmptyFs(0)
    /\ dry_run = FALSE /\ use_multiprocessing = FALSE
    /\ all_tasks = <<>> /\ results = <<>> /\ workers = <<>>
    /\ summary = NoSummary /\ error_list = <<>>

SpecRangeLong == InitRangeLong /\ [][NextRange]_vars

---------------------------------------------------------------------------
(* SpecFolder: one call of process_sign_folder, on any of the model's       *)
(* folder names, metadata directories, frame counts and disks               *)

c_NIA == <<"N", "I", "A">>
c_SL == <<"S", "L">>
c_WORD1 == <<"W", "O", "R", "D", "1">>
c_REAL1 == <<"R", "E", "A", "L", "1">>
c_REAL2 == <<"R", "E", "A", "L", "2">>
c_FS1 == <<"F", "S", "1">>
c_FRONT == <<"F", "R", "O", "N", "T">>
c_F == <<"F">>
c_D == <<"D">>
c_morpheme_tail == <<"m", "o", "r", "p", "h", "e", "m", "e", ".", "j", "s", "o", "n">>

FolderNames ==
    { Join(<<c_NIA, c_SL, c_WORD1, c_REAL1, c_F>>, "_"),       \* a Front folder
      Join(<<c_NIA, c_SL, c_WORD1, c_REAL1, c_D>>, "_"),       \* a Down folder
      Join(<<c_NIA, c_SL, c_WORD1, c_REAL1, c_F, c_D>>, "_"),  \* two view tokens
      Join(<<c_NIA, c_SL, c_WORD1, c_FS1, c_D>>, "_"),         \* '_F' inside a token
      Join(<<c_NIA, c_SL, c_REAL1, c_F>>, "_"),                \* no WORD token
      Join(<<c_NIA, c_SL, c_WORD1, c_FRONT>>, "_"),            \* no view token
      Join(<<c_F, c_WORD1, c_REAL1>>, "_") }                   \* F, but no '_F'

MetaName(variant, view) ==
    Join(<<c_NIA, c_SL, c_WORD1, variant, view, c_morpheme_tail>>, "_")

\* the timing records a metadata file may hold, and a file that does not parse
Timings ==
    [json : {TRUE}, start : -1..MaxFolderTime, end : -1..MaxFolderTime,
     duration : 0..MaxFolderTime]
    \cup {[json |-> FALSE]}

\* the Front-view files of WORD1: the second one holds a fixed record
MetaFiles(timing) ==
    { <<MetaName(c_REAL1, c_F), timing>>,
      <<MetaName(c_REAL2, c_F), [json |-> TRUE, start |-> 0, end |-> 0, duration |-> 1]>> }

\* the Down-view file of WORD1
MetaFileD ==
    <<MetaName(c_REAL1, c_D), [json |-> TRUE, start |-> 1, end |-> 1, duration |-> 1]>>

\* the metadata directory lists none, one or both of the Front files, in
\* either order, and then the Down file
MetaListings(timing) ==
    { Append(l, MetaFileD) :
        l \in {<<>>} \cup { <<m>> : m \in MetaFiles(timing) }
                     \cup { mn \in MetaFiles(timing) \X MetaFiles(timing) : mn[1] # mn[2] } }

MetaItems(morpheme_folder, listing) ==
    [k \in DOMAIN listing |-> <<PathJoin(morpheme_folder, listing[k][1]), listing[k][2]>>]

\* what an earlier run left in the output folder: a file under the name
\* that position 0 gets, and one under a name past every position
StaleItems(output_folder, folder_name) ==
    << <<PathJoin(output_folder, FrameName(folder_name, 0)), [frame |-> -2]>>,
       <<PathJoin(output_folder, FrameName(folder_name, 2 * MaxFrames)), [frame |-> -3]>> >>

FolderFs(folder_name, n, listing, free, stale) ==
    LET keypoint_folder == PathJoin(PathJoin(KeypointBase, c_01), folder_name)
        morpheme_folder == PathJoin(MorphemeBase, c_01)
        output_folder == PathJoin(PathJoin(OutputRoot, c_01), folder_name)
        f1 == WithSignFolder(EmptyFs(free), keypoint_folder, n)
        f2 == WithFiles(WithDir(f1, morpheme_folder), MetaItems(morpheme_folder, listing))
    IN  IF stale THEN WithFiles(f2, StaleItems(output_folder, folder_name)) ELSE f2

FolderCall(folder_name) ==
    [op |-> "process_sign_folder",
     keypoint_folder |-> PathJoin(PathJoin(KeypointBase, c_01), folder_name),
     morpheme_folder |-> PathJoin(MorphemeBase, c_01),
     output_base |-> PathJoin(OutputRoot, c_01)]

InitFolder ==
    /\ \E folder_name \in FolderNames, n \in {0, 1, MaxFrames}, timing \in Timings,
          free \in (0..MaxFree) \cup {DiskPlenty}, stale \in BOOLEAN :
          \E listing \in MetaListings(timing) :
             /\ fs0 = FolderFs(folder_name, n, listing, free, stale)
             /\ call = FolderCall(folder_name)
    /\ fs = fs0
    /\ dry_run \in BOOLEAN
    /\ ret = NoRet
    /\ pc = "call"
    /\ use_multiprocessing = FALSE
    /\ all_tasks = <<>> /\ results = <<>> /\ workers = <<>>
    /\ summary = NoSummary /\ error_list = <<>>

CallProcessSignFolder ==
    /\ pc = "call" /\ call.op = "process_sign_folder"
    /\ LET r == process_sign_folder(call.keypoint_folder, call.morpheme_folder,
                                    call.output_base, dry_run, fs)
       IN  ret' = r.result /\ fs' = r.fs
    /\ pc' = "returned"
    /\ UNCHANGED <<fs0, dry_run, use_multiprocessing, call, all_tasks,
                   results, workers, summary, error_list>>

NextFolder == CallProcessSignFolder

SpecFolder == InitFolder /\ [][NextFolder]_vars

---------------------------------------------------------------------------
(* process_dataset: discovery of the job list *)

\* d.isdigit()
IsDigit(name) ==
    name # <<>> /\ \A i \in DOMAIN name : \E d \in DOMAIN DigitChars : name[i] = DigitChars[d]

\* sorted([d for d in os.listdir(base) if os.path.isdir(os.path.join(base, d))]),
\* as paths
SortedSubdirs(f, base) ==
    LET isdir(d) == IsDir(f, PathJoin(base, d))
        names == SelectSeq(f.dirs[base], isdir)
    IN  Sorted([k \in 1..Len(names) |-> PathJoin(base, names[k])])

HasDigitName(p) == IsDigit(Basename(p))
numbered_folders(f) == SelectSeq(SortedSubdirs(f, KeypointBase), HasDigitName)

IsFrontFolder(p) == ~NotFrontView(Basename(p))

\* the jobs of one numbered folder
TasksOf(f, keypoint_folder_base, dry) ==
    LET folder_num == Basename(keypoint_folder_base)
        morpheme_folder == PathJoin(MorphemeBase, folder_num)
        f_folders == SelectSeq(SortedSubdirs(f, keypoint_folder_base), IsFrontFolder)
    IN  IF ~Exists(f, morpheme_folder) \/ ~Exists(f, keypoint_folder_base)
        THEN <<>>
        ELSE [k \in 1..Len(f_folders) |->
                 [keypoint_folder |-> f_folders[k],
                  morpheme_folder |-> morpheme_folder,
                  output_base |-> PathJoin(OutputRoot, folder_num),
                  dry_run |-> dry]]

RECURSIVE CollectTasks(_, _, _)
CollectTasks(f, numbered, dry) ==
    IF numbered = <<>> THEN <<>>
    ELSE TasksOf(f, Head(numbered), dry) \o CollectTasks(f, Tail(numbered), dry)

Discovered(f, dry) == CollectTasks(f, numbered_folders(f), dry)

\* process_single_folder_wrapper(args)
process_single_folder_wrapper(task, f) ==
    process_sign_folder(task.keypoint_folder, task.morpheme_folder,
                        task.output_base, task.dry_run, f)

---------------------------------------------------------------------------
(* process_dataset: folding the results into the summary *)

c_Unknown == <<"Unknown">>

\* result.get('folder', 'Unknown')
FolderOf(result) == IF "folder" \in DOMAIN result THEN result.folder ELSE c_Unknown

\* f"{folder_name}: {result['error']}"
ErrorLine(result) == FolderOf(result) \o <<":", " ">> \o result.error

IsSkipped(result) == "skipped" \in DOMAIN result /\ result.skipped
IsError(result) == ~IsSkipped(result) /\ "error" \in DOMAIN result
IsSuccess(result) ==
    ~IsSkipped(result) /\ ~IsError(result) /\ "success" \in DOMAIN result /\ result.success

ZeroSummary ==
    [success_count |-> 0, skip_count |-> 0, error_count |-> 0,
     total_original |-> 0, total_kept |-> 0, total_trimmed |-> 0]

\* the loop over results and the sums over all_stats
RECURSIVE Collect(_, _, _)
Collect(rs, k, acc) ==
    IF k > Len(rs) THEN acc
    ELSE LET r == rs[k]
         IN  Collect(rs, k + 1,
               IF IsSkipped(r)
               THEN [acc EXCEPT !.summary.skip_count = @ + 1]
               ELSE IF IsError(r)
               THEN [acc EXCEPT !.summary.error_count = @ + 1,
                                !.error_list = Append(@, ErrorLine(r))]
               ELSE IF IsSuccess(r)
               THEN [acc EXCEPT !.summary.success_count = @ + 1,
                                !.summary.total_original = @ + r.total_frames,
                                !.summary.total_kept = @ + r.kept_frames,
                                !.summary.total_trimmed = @ + r.trimmed_frames]
               ELSE acc)

Collected(rs) == Collect(rs, 1, [summary |-> ZeroSummary, error_list |-> <<>>])

---------------------------------------------------------------------------
(* Spec: process_dataset on a dataset of two numbered folders.  Folder 01   *)
(* holds up to MaxFolders sign folders, each of one of the kinds below;     *)
(* folder 02 has no metadata folder.                                        *)

ValidTiming == [json |-> TRUE, start |-> 0, end |-> 1, duration |-> 1]

SignFolderKinds ==
    { [view |-> "F", word |-> TRUE, frames |-> 1, meta |-> <<ValidTiming>>],
      [view |-> "F", word |-> TRUE, frames |-> 2, meta |-> <<ValidTiming>>],
      [view |-> "F", word |-> TRUE, frames |-> 0, meta |-> <<ValidTiming>>],
      [view |-> "F", word |-> TRUE, frames |-> 1, meta |-> <<>>],
      [view |-> "F", word |-> TRUE, frames |-> 1,
       meta |-> <<[json |-> TRUE, start |-> 0, end |-> 0, duration |-> 0]>>],
      [view |-> "F", word |-> TRUE, frames |-> 2,
       meta |-> <<[json |-> TRUE, start |-> 6, end |-> -6, duration |-> 1]>>],
      [view |-> "F", word |-> FALSE, frames |-> 1, meta |-> <<ValidTiming>>],
      [view |-> "D", word |-> TRUE, frames |-> 1, meta |-> <<ValidTiming>>] }

\* the j-th sign folder: NIA_SL_WORDj_REAL1_<view>, or with Xj for WORDj
WordToken(j, kind) == (IF kind.word THEN c_WORD ELSE <<"X">>) \o Decimal(j)
SignFolderName(j, kind) ==
    Join(<<c_NIA, c_SL, WordToken(j, kind), c_REAL1, <<kind.view>> >>, "_")
SignMetaName(j, kind) ==
    Join(<<c_NIA, c_SL, WordToken(j, kind), c_REAL1, <<kind.view>>, c_morpheme_tail>>, "_")

RECURSIVE WithSignFolders(_, _, _)
WithSignFolders(f, kinds, j) ==
    IF j > Len(kinds) THEN f
    ELSE LET kind == kinds[j]
             keypoint_folder == PathJoin(PathJoin(KeypointBase, c_01), SignFolderName(j, kind))
             meta == [k \in DOMAIN kind.meta |->
                        <<PathJoin(PathJoin(MorphemeBase, c_01), SignMetaName(j, kind)),
                          kind.meta[k]>>]
         IN  WithSignFolders(
                 WithFiles(WithSignFolder(f, keypoint_folder, kind.frames), meta),
                 kinds, j + 1)

DatasetFs(kinds, free) ==
    LET f1 == WithDir(WithDir(EmptyFs(free), MorphemeBase), PathJoin(MorphemeBase, c_01))
        f2 == WithSignFolder(f1, PathJoin(PathJoin(KeypointBase, c_02),
                                          SignFolderName(9, [view |-> "F", word |-> TRUE])), 1)
    IN  WithDir(WithSignFolders(WithDir(f2, PathJoin(KeypointBase, c_01)), kinds, 1),
                OutputRoot)

Workers == 1..MaxWorkers
Idle == [task |-> 0]

Init ==
    /\ \E n \in 0..MaxFolders : \E kinds \in [1..n -> SignFolderKinds] :
          \E free \in 0..MaxDatasetFree : fs0 = DatasetFs(kinds, free)
    /\ fs = fs0
    /\ dry_run \in BOOLEAN
    /\ use_multiprocessing \in BOOLEAN
    /\ call = NoCall /\ ret = NoRet
    /\ all_tasks = <<>>
    /\ results = <<>>
    /\ workers = [w \in Workers |-> Idle]
    /\ pc = "discover"
    /\ summary = NoSummary
    /\ error_list = <<>>

\* lines 211-259: the job list
Discover ==
    /\ pc = "discover"
    /\ all_tasks' = Discovered(fs, dry_run)
    /\ pc' = IF use_multiprocessing /\ ~dry_run THEN "pool" ELSE "sequential"
    /\ UNCHANGED <<fs, fs0, dry_run, use_multiprocessing, call, ret, results,
                   workers, summary, error_list>>

\* lines 277-279: the next job, in the main process; what it raises ends the run
SequentialStep ==
    /\ pc = "sequential"
    /\ Len(results) < Len(all_tasks)
    /\ LET r == process_single_folder_wrapper(all_tasks[Len(results) + 1], fs)
       IN  /\ fs' = r.fs
           /\ IF Raised(r.result)
              THEN pc' = "aborted" /\ ret' = r.result /\ UNCHANGED results
              ELSE pc' = pc /\ results' = Append(results, r.result) /\ UNCHANGED ret
    /\ UNCHANGED <<fs0, dry_run, use_multiprocessing, call, all_tasks,
                   workers, summary, error_list>>

SequentialDone ==
    /\ pc = "sequential"
    /\ Len(results) = Len(all_tasks)
    /\ pc' = "collect"
    /\ UNCHANGED <<fs, fs0, dry_run, use_multiprocessing, call, ret, all_tasks,
                   results, workers, summary, error_list>>

\* lines 268-274: pool.imap hands the jobs to idle workers in list order and
\* yields the results in list order; a job's exception is its result, and is
\* raised in the main process when its turn comes.
Dispatched ==
    Cardinality(DOMAIN results) + Cardinality({w \in Workers : workers[w].task # 0})

\* where a finished job's result goes
StoreResult(rs, k, r) == (k :> r) @@ rs

\* the local variables of the job worker w runs: each worker is a process
\* of its own
CurrentPlan_Shared(w) ==
    IF workers[1].task # 0 THEN workers[1].plan ELSE workers[w].plan

CurrentPlan(w) == workers[w].plan

\* a worker takes the next job and runs it up to the copy loop
WorkerStart(w) ==
    /\ pc = "pool"
    /\ workers[w].task = 0
    /\ Dispatched < Len(all_tasks)
    /\ LET k == Dispatched + 1
           task == all_tasks[k]
           p == Prepare(task.keypoint_folder, task.morpheme_folder,
                        task.output_base, task.dry_run, fs)
       IN  /\ fs' = p.fs
           /\ IF p.done
              THEN /\ results' = StoreResult(results, k, p.result)
                   /\ UNCHANGED workers
              ELSE /\ workers' = [workers EXCEPT ![w] = [task |-> k, i |-> 0, plan |-> p.plan]]
                   /\ UNCHANGED results
    /\ UNCHANGED <<fs0, dry_run, use_multiprocessing, call, ret, all_tasks,
                   pc, summary, error_list>>

\* a worker copies the next frame of its job
WorkerCopy(w) ==
    /\ pc = "pool"
    /\ workers[w].task # 0
    /\ workers[w].i < LoopCount(CurrentPlan(w))
    /\ LET step == CopyFrame(CurrentPlan(w), workers[w].i,
                             all_tasks[workers[w].task].dry_run, fs)
       IN  /\ fs' = step.fs
           /\ IF step.raised # "no"
              THEN /\ results' = StoreResult(results, workers[w].task, Raise(step.raised))
                   /\ workers' = [workers EXCEPT ![w] = Idle]
              ELSE /\ workers' = [workers EXCEPT ![w].i = @ + 1]
                   /\ UNCHANGED results
    /\ UNCHANGED <<fs0, dry_run, use_multiprocessing, call, ret, all_tasks,
                   pc, summary, error_list>>

\* a worker returns from its job
WorkerReturn(w) ==
    /\ pc = "pool"
    /\ workers[w].task # 0
    /\ workers[w].i >= LoopCount(CurrentPlan(w))
    /\ results' = StoreResult(results, workers[w].task, SuccessResult(CurrentPlan(w)))
    /\ workers' = [workers EXCEPT ![w] = Idle]
    /\ UNCHANGED <<fs, fs0, dry_run, use_multiprocessing, call, ret, all_tasks,
                   pc, summary, error_list>>

\* the main process reaches a job that raised: the exception leaves
\* process_dataset and the pool is terminated
PoolRaise ==
    /\ pc = "pool"
    /\ \E k \in DOMAIN results :
          /\ 1..k \subseteq DOMAIN results
          /\ \A j \in 1..(k - 1) : ~Raised(results[j])
          /\ Raised(results[k])
          /\ ret' = results[k]
    /\ pc' = "aborted"
    /\ workers' = [w \in Workers |-> Idle]
    /\ UNCHANGED <<fs, fs0, dry_run, use_multiprocessing, call, all_tasks,
                   results, summary, error_list>>

\* the main process has every result
PoolDone ==
    /\ pc = "pool"
    /\ DOMAIN results = 1..Len(all_tasks)
    /\ \A k \in DOMAIN results : ~Raised(results[k])
    /\ pc' = "collect"
    /\ UNCHANGED <<fs, fs0, dry_run, use_multiprocessing, call, ret, all_tasks,
                   results, workers, summary, error_list>>

\* lines 282-321: the counts, the sums and the error log
ErrorLogPath == << <<"e", "r", "r", "o", "r", "s", ".", "l", "o", "g">> >>

CollectResults ==
    /\ pc = "collect"
    /\ summary' = Collected(results).summary
    /\ error_list' = Collected(results).error_list
    /\ fs' = IF error_list' # <<>>
             THEN [fs EXCEPT !.files = (ErrorLogPath :> error_list') @@ @]
             ELSE fs
    /\ pc' = "done"
    /\ UNCHANGED <<fs0, dry_run, use_multiprocessing, call, ret, all_tasks,
                   results, workers>>

Next ==
    \/ Discover
    \/ SequentialStep
    \/ SequentialDone
    \/ \E w \in Workers : WorkerStart(w)
    \/ \E w \in Workers : WorkerCopy(w)
    \/ \E w \in Workers : WorkerReturn(w)
    \/ PoolRaise
    \/ PoolDone
    \/ CollectResults

Spec == Init /\ [][Next]_vars

\* lines 277-279 as one computation: the sequential loop over tasks from
\* job k on, with the results so far; a job that raises ends it
RECURSIVE SequentialRun(_, _, _, _)
SequentialRun(tasks, k, rs, f) ==
    IF k > Len(tasks) THEN [aborted |-> FALSE, results |-> rs, fs |-> f]
    ELSE LET r == process_single_folder_wrapper(tasks[k], f)
         IN  IF Raised(r.result)
             THEN [aborted |-> TRUE, results |-> rs, fs |-> r.fs]
             ELSE SequentialRun(tasks, k + 1, Append(rs, r.result), r.fs)

---------------------------------------------------------------------------
(* The claims *)

Returned == pc = "returned" /\ call.op = "process_sign_folder"
CalledFolder == Basename(call.keypoint_folder)
OutputFolder == PathJoin(call.output_base, CalledFolder)

\* what the same call returns and leaves with another dry_run flag
Rerun(dry) ==
    process_sign_folder(call.keypoint_folder, call.morpheme_folder,
                        call.output_base, dry, fs0)

\* C1: a copy failure in one folder becomes that folder's Error outcome and
\* never ends the run: no run of process_dataset is ended by the OSError of
\* a failed copy.
C1_CopyFailureNeverAborts == ~(pc = "aborted" /\ ret = Raise("OSError"))

\* C2: a metadata record with duration = 0 gives the folder's Error outcome:
\* no ZeroDivisionError leaves process_sign_folder.
C2_ZeroDurationIsAnError == Returned => ret # Raise("ZeroDivisionError")

ValidRangeCall ==
    /\ pc = "returned" /\ call.op = "get_frame_range"
    /\ call.offset = DefaultOffset
    /\ call.total_frames >= 1
    /\ 0 <= call.start_time /\ call.start_time <= call.end_time
    /\ call.end_time <= call.duration /\ call.duration > 0

\* C3: with the default offset, total_frames >= 1 and a timing record with
\* 0 <= start_time <= end_time <= duration and duration > 0, the range has
\* 0 <= start_frame <= end_frame <= total_frames - 1.
C3_FrameRangeWithinBounds ==
    ValidRangeCall =>
        /\ ~Raised(ret)
        /\ 0 <= ret.start_frame
        /\ ret.start_frame <= ret.end_frame
        /\ ret.end_frame <= call.total_frames - 1

\* C3's case: a valid call whose range is clamped at neither end
C3_Witness ==
    /\ ValidRangeCall
    /\ ret.start_frame > 0
    /\ ret.end_frame < call.total_frames - 1

\* C4: a Success is of a folder whose parsed view code is F, and a folder
\* whose view code is D, L, R or U is Skipped.
C4_OnlyFrontViewProcessed ==
    Returned =>
        /\ IsSuccess(ret) => ViewDir(CalledFolder) = c_F
        /\ ViewDir(CalledFolder) \in ViewCodes \ {c_F} => IsSkipped(ret)

IndexToken(name) == Split(name, "_")[Len(Split(name, "_")) - 1]

\* C6: after a successful real run into an empty output folder, the folder
\* holds kept_frames files, with the index tokens 0..kept_frames-1 in 12
\* digits, and index i is the copy of frame start_frame + i of the sorted
\* frames.
C6_SequentialRenumbering ==
    Returned /\ ~dry_run /\ IsSuccess(ret) /\ ~Exists(fs0, OutputFolder) =>
        LET keypoint_files ==
                Sorted(Glob(fs0, call.keypoint_folder, <<"*">> \o c_keypoints_json))
            out == fs.dirs[OutputFolder]
        IN  /\ Len(out) = ret.kept_frames
            /\ \A k \in DOMAIN out :
                  \E i \in 0..(ret.kept_frames - 1) :
                     /\ IndexToken(out[k]) = ZeroPad(i, PadWidth)
                     /\ fs.files[PathJoin(OutputFolder, out[k])]
                          = fs0.files[keypoint_files[ret.start_frame + i + 1]]
            /\ \A i \in 0..(ret.kept_frames - 1) :
                  \E k \in DOMAIN out : IndexToken(out[k]) = ZeroPad(i, PadWidth)
            /\ \A k, l \in DOMAIN out :
                  IndexToken(out[k]) = IndexToken(out[l]) => k = l

\* What the sequential loop makes of the discovered jobs, from the
\* filesystem the run started on
SequentialOutcome == SequentialRun(all_tasks, 1, <<>>, fs0)

\* C7: a run through the worker pool, under every interleaving of the
\* workers, ends as the sequential loop over the same jobs ends: with the
\* same counts and frame sums, or, where the sequential loop is ended by an
\* exception, by an exception.
C7_PoolMatchesSequential ==
    /\ pc = "done" =>
          /\ ~SequentialOutcome.aborted
          /\ summary = Collected(SequentialOutcome.results).summary
    /\ pc = "aborted" => SequentialOutcome.aborted

\* C7's case: a finished pool run with a success of two copies and an error
C7_Witness ==
    /\ pc = "done" /\ use_multiprocessing /\ ~dry_run
    /\ summary.success_count >= 1
    /\ summary.error_count >= 1
    /\ summary.total_kept >= 2

\* the names of a directory in sorted order
SortedNames(names) ==
    LET ps == Sorted([k \in DOMAIN names |-> <<names[k]>>])
    IN  [k \in DOMAIN ps |-> ps[k][1]]

\* the filesystem the call started on, its metadata directory listed in
\* sorted order
SortedMetadataFs ==
    [fs0 EXCEPT !.dirs[call.morpheme_folder] = SortedNames(@)]

\* C8: the metadata file used is the lexicographically first match, so the
\* outcome is the one the call has when the directory lists its files in
\* sorted order.
C8_FirstMatchIsLexicographicallyFirst ==
    Returned =>
        ret = process_sign_folder(call.keypoint_folder, call.morpheme_folder,
                                  call.output_base, dry_run, SortedMetadataFs).result

\* the error lines the results call for: one per Error outcome, in job
\* order, '<folder_name>: <message>' with the name of the job's folder
RECURSIVE ExpectedErrorLines(_)
ExpectedErrorLines(k) ==
    IF k > Len(all_tasks) THEN <<>>
    ELSE (IF IsError(results[k])
          THEN <<Basename(all_tasks[k].keypoint_folder) \o <<":", " ">> \o results[k].error>>
          ELSE <<>>)
         \o ExpectedErrorLines(k + 1)

\* C9: every line of the error list is '<folder_name>: <message>' with the
\* name of the folder whose job gave the error.
C9_ErrorLinesNameTheFolder == pc = "done" => error_list = ExpectedErrorLines(1)

\* C10: a folder name without '_F' is Skipped and nothing is written, in dry
\* run and in real mode, whatever metadata and frames there are.
C10_NoFrontMarkerIsSkipped ==
    Returned /\ ~Contains(CalledFolder, <<"_", "F">>) =>
        IsSkipped(ret) /\ fs = fs0

\* C10's case: a real run on a folder that has frames and an F in its name,
\* but no '_F'
C10_Witness ==
    /\ Returned /\ ~dry_run
    /\ ~Contains(CalledFolder, <<"_", "F">>) /\ Contains(CalledFolder, <<"F">>)
    /\ Glob(fs0, call.keypoint_folder, <<"*">> \o c_keypoints_json) # <<>>
    /\ IsSkipped(ret)

RangeReturned == pc = "returned" /\ call.op = "get_frame_range"

\* C11: for every input with duration > 0, get_frame_range returns exactly
\* start_frame = max(0, floor(start_time * total_frames / duration) - offset)
\* and end_frame = min(total_frames - 1,
\* floor(end_time * total_frames / duration) + offset), with no swap or
\* other adjustment when start_frame > end_frame.
C11_RangeIsTheFloorFormula ==
    (RangeReturned /\ call.duration > 0) =>
        ret = [start_frame |->
                   Max(0, ((call.start_time * call.total_frames)
                               \div call.duration) - call.offset),
               end_frame |->
                   Min(call.total_frames - 1,
                       ((call.end_time * call.total_frames)
                               \div call.duration) + call.offset)]

\* the same call with another offset
WithOffset(o) ==
    get_frame_range(call.start_time, call.end_time, call.duration,
                    call.total_frames, o)

\* C12: for fixed start_time, end_time, duration and total_frames and any
\* two offsets o1 <= o2, the range of o2 has a start_frame no greater and an
\* end_frame no smaller than the range of o1, and a bound that is clamped
\* with o1 (start_frame = 0, end_frame = total_frames - 1) is clamped with o2.
C12_OffsetMonotone ==
    (RangeReturned /\ ~Raised(ret)) =>
        \A o2 \in call.offset..MaxOffset :
            LET wider == WithOffset(o2)
            IN  /\ wider.start_frame <= ret.start_frame
                /\ wider.end_frame >= ret.end_frame
                /\ ret.start_frame = 0 => wider.start_frame = 0
                /\ ret.end_frame = call.total_frames - 1
                       => wider.end_frame = call.total_frames - 1

\* C12's case: a valid record whose range is clamped at neither end, a
\* larger offset that widens it at both ends and still clamps at neither,
\* and the largest offset, which clamps at both
C12_Witness ==
    /\ RangeReturned /\ ~Raised(ret)
    /\ 0 <= call.start_time /\ call.start_time <= call.end_time
    /\ call.end_time <= call.duration
    /\ ret.start_frame > 0 /\ ret.end_frame < call.total_frames - 1
    /\ \E o2 \in call.offset..MaxOffset :
           LET wider == WithOffset(o2)
           IN  /\ 0 < wider.start_frame
               /\ wider.start_frame < ret.start_frame
               /\ wider.end_frame > ret.end_frame
               /\ wider.end_frame < call.total_frames - 1
    /\ WithOffset(MaxOffset) =
           [start_frame |-> 0, end_frame |-> call.total_frames - 1]

\* the files of the called folder's output folder that a run from filesystem
\* before to filesystem after created or overwrote
WrittenFiles(before, after) ==
    { p \in DOMAIN after.files :
        /\ Dirname(p) = OutputFolder
        /\ (p \in DOMAIN before.files => after.files[p] # before.files[p]) }

\* C13: for every Success of process_sign_folder, whatever the metadata
\* values, kept_frames is the number of frame files the run copied (in a dry
\* run: the number the real run copies, where that run ends), so
\* 0 <= kept_frames <= total_frames and trimmed_frames =
\* total_frames - kept_frames is within 0..total_frames.
C13_KeptFramesCountsCopies ==
    Returned /\ IsSuccess(ret) =>
        /\ ~dry_run => ret.kept_frames = Cardinality(WrittenFiles(fs0, fs))
        /\ dry_run /\ ~Raised(Rerun(FALSE).result) =>
               ret.kept_frames = Cardinality(WrittenFiles(fs0, Rerun(FALSE).fs))
        /\ 0 <= ret.kept_frames /\ ret.kept_frames <= ret.total_frames
        /\ ret.trimmed_frames = ret.total_frames - ret.kept_frames
        /\ 0 <= ret.trimmed_frames /\ ret.trimmed_frames <= ret.total_frames

=============================================================================
